---- MODULE Spec2Model ----
(***************************************************************************)
(* DMPC: the user-record merge engine (package users), the encrypted       *)
(* operation envelopes (package core) and the status range checks          *)
(* (package status), modelled as state machines.                           *)
(***************************************************************************)
EXTENDS Integers, Sequences, FiniteSets, TLC

VARIABLES
    record,     \* users: the userRecord being merged into
    prev,       \* users: the record as it was before the last applyUpdateRequest
    req,        \* users: the last UserRequest applied
    prevReq,    \* users: the UserRequest applied before the last one
    acc,        \* users: what each leaf update of the last call returned
    ops,        \* users: number of applyUpdateRequest calls so far
    setBy,      \* users: for each leaf, the request whose update last wrote it
    start,      \* replicas: the record both replicas start from
    replica,    \* replicas: the record held by each replica
    reqs,       \* replicas: the set of update requests to deliver
    applied,    \* replicas: the requests each replica has applied
    last,       \* replicas: the request each replica applied last
    pc,         \* callers: where each concurrent caller stands in its call
    call,       \* callers: the request each concurrent caller applies
    tempOp,     \* core: the TemporaryEncryptedOperation last sealed
    tempKey,    \* core: the recipient key the sealing returned
    tempIn,     \* core: the arguments and random bytes of the last sealing
    tempOut,    \* core: the result of the last Decrypt of tempOp
    permOp,     \* core: the PermanentEncryptedOperation last sealed, as it travels
    permKeys,   \* core: the issuer and certifier keys the sealing returned
    permIn,     \* core: the arguments of the last sealing
    permOut,    \* core: the result of the last Decrypt of permOp
    running,    \* status: whether the status server is started
    tickets,    \* status: the tickets issued and what is recorded for each
    statusErr,  \* status: what the last UpdateStatus returned
    started,    \* status: whether the status server was ever started
    signalMapping,  \* main: the map the signalMapping literal built
    signalChannel,  \* main: the signals buffered in signalChannel
    listener,       \* main: where listenForSystemTermination stands
    main,           \* main: where shutdownWhenSignaled stands
    received,       \* main: the causes listenForTermination received, in order
    raised,         \* main: the signals raised so far and what became of each
    logged          \* main: the message listenForTermination logged

mergeVars == <<record, prev, req, prevReq, acc, ops, setBy>>

replicaVars == <<start, replica, reqs, applied, last>>

callerVars == <<pc, call>>

temporaryVars == <<tempOp, tempKey, tempIn, tempOut>>

permanentVars == <<permOp, permKeys, permIn, permOut>>

statusVars == <<running, tickets, statusErr, started>>

terminationVars == <<signalMapping, signalChannel, listener, main, received, raised, logged>>

usersVars == <<mergeVars, replicaVars, callerVars>>

\* everything outside package users
outsideUsers == <<temporaryVars, permanentVars, statusVars, terminationVars>>

vars == <<usersVars, outsideUsers>>

\* ------------------------------------------------------------------------
\* Bounds of the model
\* ------------------------------------------------------------------------
MaxTime == 3        \* request timestamps are 1..MaxTime; the record is created at 0
MaxFields == 2      \* longest FieldsUpdated list of a request
MaxOps == 2         \* applyUpdateRequest calls on one record
MaxSeed == 1        \* requests both replicas have applied before they diverge
MaxReqs == 2        \* size of the set of requests delivered to the replicas
MaxTickets == 1     \* tickets RequestNewTicket issues
MaxSignals == 3     \* signals raised while the process runs

\* ------------------------------------------------------------------------
\* package users: records and requests
\* ------------------------------------------------------------------------
CreationTime == 0

Timestamps == 1..MaxTime

UserPermissionPaths ==
    { "permissions.user.add", "permissions.user.remove",
      "permissions.user.encKeyUpdate", "permissions.user.signKeyUpdate",
      "permissions.user.permissionsUpdate" }

FieldPaths ==
    { "active", "encKey", "signKey", "permissions.channel.add" }
        \cup UserPermissionPaths

\* a field path the switch of applyUpdateRequest has no case for
UnknownPath == "permissions.unknown"

RequestPaths == FieldPaths \cup {UnknownPath}

booleanRecord(ok, t) == [Ok |-> ok, UpdatedAt |-> t]

keyRecord(key, t) == [Key |-> key, UpdatedAt |-> t]

\* the record right after creation: every timestamp is the creation time
FreshRecord ==
    [ Id |-> "USER",
      EncKey |-> keyRecord("key0", CreationTime),
      SignKey |-> keyRecord("key0", CreationTime),
      Permissions |->
        [ Channel |-> [ Add |-> booleanRecord(FALSE, CreationTime),
                        UpdatedAt |-> CreationTime ],
          User |-> [ Add |-> booleanRecord(FALSE, CreationTime),
                     Remove |-> booleanRecord(FALSE, CreationTime),
                     EncKeyUpdate |-> booleanRecord(FALSE, CreationTime),
                     SignKeyUpdate |-> booleanRecord(FALSE, CreationTime),
                     PermissionsUpdate |-> booleanRecord(FALSE, CreationTime),
                     UpdatedAt |-> CreationTime ],
          UpdatedAt |-> CreationTime ],
      Active |-> booleanRecord(FALSE, CreationTime),
      CreatedAt |-> CreationTime,
      UpdatedAt |-> CreationTime ]

\* the Data of a request: one candidate value per field
RequestData(b, k) ==
    [ Active |-> b,
      encKeyObject |-> k,
      signKeyObject |-> k,
      Permissions |->
        [ Channel |-> [ Add |-> b ],
          User |-> [ Add |-> b, Remove |-> b, EncKeyUpdate |-> b,
                     SignKeyUpdate |-> b, PermissionsUpdate |-> b ] ] ]

DataPool == { RequestData(TRUE, "key1"), RequestData(FALSE, "key2") }

RECURSIVE FieldLists(_)
FieldLists(n) ==
    IF n = 0 THEN { <<>> }
    ELSE LET shorter == FieldLists(n - 1)
         IN shorter \cup { Append(l, p) : l \in { s \in shorter : Len(s) = n - 1 },
                                          p \in RequestPaths }

UserRequest(fields, t, data) ==
    [ FieldsUpdated |-> fields, Timestamp |-> t, Data |-> data ]

Requests ==
    { UserRequest(l, t, d) : l \in FieldLists(MaxFields) \ { <<>> },
                             t \in Timestamps, d \in DataPool }

NoRequest == UserRequest(<<>>, CreationTime, RequestData(FALSE, "key0"))

\* time.Time.After
After(t, u) == t > u

\* booleanRecord.update taking a tie for a newer update
booleanRecordUpdate_AcceptTie(perm, val, time) ==
    IF time >= perm.UpdatedAt
    THEN [ rec |-> booleanRecord(val, time), ok |-> TRUE ]
    ELSE [ rec |-> perm, ok |-> FALSE ]

\* booleanRecord.update without the comparison of timestamps
booleanRecordUpdate_Unguarded(perm, val, time) ==
    [ rec |-> booleanRecord(val, time), ok |-> TRUE ]

\* keyRecord.update taking a tie for a newer update
keyRecordUpdate_AcceptTie(keyRec, val, time) ==
    IF time >= keyRec.UpdatedAt
    THEN [ rec |-> keyRecord(val, time), ok |-> TRUE ]
    ELSE [ rec |-> keyRec, ok |-> FALSE ]

\* keyRecord.update writing the value before it compares the timestamps
keyRecordUpdate_WritesBeforeCompare(keyRec, val, time) ==
    IF After(time, keyRec.UpdatedAt)
    THEN [ rec |-> keyRecord(val, time), ok |-> TRUE ]
    ELSE [ rec |-> keyRecord(val, keyRec.UpdatedAt), ok |-> FALSE ]

\* keyRecord.update without the comparison of timestamps
keyRecordUpdate_Unguarded(keyRec, val, time) ==
    [ rec |-> keyRecord(val, time), ok |-> TRUE ]

booleanRecordUpdate(perm, val, time) ==
    IF After(time, perm.UpdatedAt)
    THEN [ rec |-> booleanRecord(val, time), ok |-> TRUE ]
    ELSE [ rec |-> perm, ok |-> FALSE ]

keyRecordUpdate(keyRec, val, time) ==
    IF After(time, keyRec.UpdatedAt)
    THEN [ rec |-> keyRecord(val, time), ok |-> TRUE ]
    ELSE [ rec |-> keyRec, ok |-> FALSE ]

\* the inner switch of the permissions.user.* case: the leaf and the value
userPermission(rec, r, field) ==
    CASE field = "permissions.user.add" ->
            [ perm |-> rec.Permissions.User.Add,
              reqVal |-> r.Data.Permissions.User.Add ]
      [] field = "permissions.user.remove" ->
            [ perm |-> rec.Permissions.User.Remove,
              reqVal |-> r.Data.Permissions.User.Remove ]
      [] field = "permissions.user.encKeyUpdate" ->
            [ perm |-> rec.Permissions.User.EncKeyUpdate,
              reqVal |-> r.Data.Permissions.User.EncKeyUpdate ]
      [] field = "permissions.user.signKeyUpdate" ->
            [ perm |-> rec.Permissions.User.SignKeyUpdate,
              reqVal |-> r.Data.Permissions.User.SignKeyUpdate ]
      [] field = "permissions.user.permissionsUpdate" ->
            [ perm |-> rec.Permissions.User.PermissionsUpdate,
              reqVal |-> r.Data.Permissions.User.PermissionsUpdate ]

\* the write through a perm that points at Permissions.User.Add whatever the
\* field is
setUserPermission_WritesAdd(rec, field, leaf) ==
    [ rec EXCEPT !.Permissions.User.Add = leaf ]

\* perm is a pointer into the record: the write through it
setUserPermission(rec, field, leaf) ==
    CASE field = "permissions.user.add" ->
            [ rec EXCEPT !.Permissions.User.Add = leaf ]
      [] field = "permissions.user.remove" ->
            [ rec EXCEPT !.Permissions.User.Remove = leaf ]
      [] field = "permissions.user.encKeyUpdate" ->
            [ rec EXCEPT !.Permissions.User.EncKeyUpdate = leaf ]
      [] field = "permissions.user.signKeyUpdate" ->
            [ rec EXCEPT !.Permissions.User.SignKeyUpdate = leaf ]
      [] field = "permissions.user.permissionsUpdate" ->
            [ rec EXCEPT !.Permissions.User.PermissionsUpdate = leaf ]

\* applyUpdateRequest leaving Permissions.UpdatedAt as it is when it accepts
\* a user permission
applyField_SkipsPermissionsRollup(rec, r, field) ==
    CASE field = "active" ->
            LET u == booleanRecordUpdate(rec.Active, r.Data.Active, r.Timestamp)
                r1 == [ rec EXCEPT !.Active = u.rec ]
            IN [ record |-> IF u.ok THEN [ r1 EXCEPT !.UpdatedAt = r.Timestamp ]
                                    ELSE r1,
                 out |-> << [ field |-> field, ok |-> u.ok ] >> ]
      [] field = "encKey" ->
            LET u == keyRecordUpdate(rec.EncKey, r.Data.encKeyObject, r.Timestamp)
                r1 == [ rec EXCEPT !.EncKey = u.rec ]
            IN [ record |-> IF u.ok THEN [ r1 EXCEPT !.UpdatedAt = r.Timestamp ]
                                    ELSE r1,
                 out |-> << [ field |-> field, ok |-> u.ok ] >> ]
      [] field = "signKey" ->
            LET u == keyRecordUpdate(rec.SignKey, r.Data.signKeyObject, r.Timestamp)
                r1 == [ rec EXCEPT !.SignKey = u.rec ]
            IN [ record |-> IF u.ok THEN [ r1 EXCEPT !.UpdatedAt = r.Timestamp ]
                                    ELSE r1,
                 out |-> << [ field |-> field, ok |-> u.ok ] >> ]
      [] field = "permissions.channel.add" ->
            LET u == booleanRecordUpdate(rec.Permissions.Channel.Add,
                                         r.Data.Permissions.Channel.Add, r.Timestamp)
                r1 == [ rec EXCEPT !.Permissions.Channel.Add = u.rec ]
            IN [ record |->
                    IF u.ok
                    THEN [ r1 EXCEPT !.UpdatedAt = r.Timestamp,
                                     !.Permissions.UpdatedAt = r.Timestamp,
                                     !.Permissions.Channel.UpdatedAt = r.Timestamp ]
                    ELSE r1,
                 out |-> << [ field |-> field, ok |-> u.ok ] >> ]
      [] field \in UserPermissionPaths ->
            LET sel == userPermission(rec, r, field)
                u == booleanRecordUpdate(sel.perm, sel.reqVal, r.Timestamp)
                r1 == setUserPermission(rec, field, u.rec)
            IN [ record |->
                    IF u.ok
                    THEN [ r1 EXCEPT !.UpdatedAt = r.Timestamp,
                                     !.Permissions.User.UpdatedAt = r.Timestamp ]
                    ELSE r1,
                 out |-> << [ field |-> field, ok |-> u.ok ] >> ]
      [] OTHER -> [ record |-> rec, out |-> << >> ]

\* one iteration of the loop of applyUpdateRequest: the record after it, and
\* what the leaf update returned (nothing for a path without a case)
applyField(rec, r, field) ==
    CASE field = "active" ->
            LET u == booleanRecordUpdate(rec.Active, r.Data.Active, r.Timestamp)
                r1 == [ rec EXCEPT !.Active = u.rec ]
            IN [ record |-> IF u.ok THEN [ r1 EXCEPT !.UpdatedAt = r.Timestamp ]
                                    ELSE r1,
                 out |-> << [ field |-> field, ok |-> u.ok ] >> ]
      [] field = "encKey" ->
            LET u == keyRecordUpdate(rec.EncKey, r.Data.encKeyObject, r.Timestamp)
                r1 == [ rec EXCEPT !.EncKey = u.rec ]
            IN [ record |-> IF u.ok THEN [ r1 EXCEPT !.UpdatedAt = r.Timestamp ]
                                    ELSE r1,
                 out |-> << [ field |-> field, ok |-> u.ok ] >> ]
      [] field = "signKey" ->
            LET u == keyRecordUpdate(rec.SignKey, r.Data.signKeyObject, r.Timestamp)
                r1 == [ rec EXCEPT !.SignKey = u.rec ]
            IN [ record |-> IF u.ok THEN [ r1 EXCEPT !.UpdatedAt = r.Timestamp ]
                                    ELSE r1,
                 out |-> << [ field |-> field, ok |-> u.ok ] >> ]
      [] field = "permissions.channel.add" ->
            LET u == booleanRecordUpdate(rec.Permissions.Channel.Add,
                                         r.Data.Permissions.Channel.Add, r.Timestamp)
                r1 == [ rec EXCEPT !.Permissions.Channel.Add = u.rec ]
            IN [ record |->
                    IF u.ok
                    THEN [ r1 EXCEPT !.UpdatedAt = r.Timestamp,
                                     !.Permissions.UpdatedAt = r.Timestamp,
                                     !.Permissions.Channel.UpdatedAt = r.Timestamp ]
                    ELSE r1,
                 out |-> << [ field |-> field, ok |-> u.ok ] >> ]
      [] field \in UserPermissionPaths ->
            LET sel == userPermission(rec, r, field)
                u == booleanRecordUpdate(sel.perm, sel.reqVal, r.Timestamp)
                r1 == setUserPermission(rec, field, u.rec)
            IN [ record |->
                    IF u.ok
                    THEN [ r1 EXCEPT !.UpdatedAt = r.Timestamp,
                                     !.Permissions.UpdatedAt = r.Timestamp,
                                     !.Permissions.User.UpdatedAt = r.Timestamp ]
                    ELSE r1,
                 out |-> << [ field |-> field, ok |-> u.ok ] >> ]
      [] OTHER -> [ record |-> rec, out |-> << >> ]

\* the loop of applyUpdateRequest leaving at the first path without a case
RECURSIVE applyFrom_StopsAtUnknown(_, _, _, _)
applyFrom_StopsAtUnknown(rec, r, i, out) ==
    IF i > Len(r.FieldsUpdated) \/ r.FieldsUpdated[i] \notin FieldPaths
    THEN [ record |-> rec, out |-> out ]
    ELSE LET s == applyField(rec, r, r.FieldsUpdated[i])
         IN applyFrom_StopsAtUnknown(s.record, r, i + 1, out \o s.out)

\* the loop of applyUpdateRequest leaving after the first update that
\* returned false
RECURSIVE applyFrom_AbortsOnStale(_, _, _, _)
applyFrom_AbortsOnStale(rec, r, i, out) ==
    IF i > Len(r.FieldsUpdated) \/ (\E j \in 1..Len(out) : ~out[j].ok)
    THEN [ record |-> rec, out |-> out ]
    ELSE LET s == applyField(rec, r, r.FieldsUpdated[i])
         IN applyFrom_AbortsOnStale(s.record, r, i + 1, out \o s.out)

RECURSIVE applyFrom(_, _, _, _)
applyFrom(rec, r, i, out) ==
    IF i > Len(r.FieldsUpdated)
    THEN [ record |-> rec, out |-> out ]
    ELSE LET s == applyField(rec, r, r.FieldsUpdated[i])
         IN applyFrom(s.record, r, i + 1, out \o s.out)

\* userRecord.applyUpdateRequest: the record after the call, and the results
\* of the leaf updates it made, in order
applyUpdateRequest(rec, r) == applyFrom(rec, r, 1, << >>)

\* ------------------------------------------------------------------------
\* package core: bytes, text and the cryptographic primitives
\* A byte string or a text is a sequence of symbols. A ciphertext, a
\* signature, a digest or an encoding is the sequence that names how it was
\* made, so that the inverse operation succeeds exactly on what the forward
\* operation produced.
\* ------------------------------------------------------------------------
Failed == [ ok |-> FALSE, bytes |-> << >> ]

Succeeded(b) == [ ok |-> TRUE, bytes |-> b ]

Base64EncodeToString(b) == << "base64" >> \o b

Base64DecodeString(text) ==
    IF Len(text) > 0 /\ text[1] = "base64" THEN Succeeded(Tail(text)) ELSE Failed

\* the key pairs generatePrivateKey can return
KeyPairs == { "rsa1", "rsa2", "rsa3" }

\* rsa.PrivateKey.PublicKey
PublicKey(priv) ==
    CASE priv = "rsa1" -> "pub1"
      [] priv = "rsa2" -> "pub2"
      [] priv = "rsa3" -> "pub3"
      [] OTHER -> "pub0"

\* what generateRandomBytes(SymmetricKeySize) and
\* generateRandomBytes(SymmetricNonceSize) can return
SymmetricKeys == { << "key1" >>, << "key2" >> }

Nonces == { << "nonce1" >>, << "nonce2" >> }

NewAead(key) == key

SymmetricEncrypt(aead, associated, nonce, plaintext) ==
    << "sealed" >> \o aead \o nonce \o associated \o plaintext

SymmetricDecrypt(aead, associated, nonce, ciphertext) ==
    IF /\ Len(ciphertext) >= 3
       /\ ciphertext[1] = "sealed"
       /\ << ciphertext[2] >> = aead
       /\ << ciphertext[3] >> = nonce
       /\ associated = << >>
    THEN Succeeded(SubSeq(ciphertext, 4, Len(ciphertext)))
    ELSE Failed

AsymmetricEncrypt(pub, plaintext) == << "rsa", pub >> \o plaintext

AsymmetricDecrypt(priv, ciphertext) ==
    IF /\ Len(ciphertext) >= 2
       /\ ciphertext[1] = "rsa"
       /\ ciphertext[2] = PublicKey(priv)
    THEN Succeeded(SubSeq(ciphertext, 3, Len(ciphertext)))
    ELSE Failed

Hash(b) == << "sha" >> \o b

Sign(priv, digest) == << "signed", PublicKey(priv) >> \o digest

Verify(pub, digest, signature) == signature = << "signed", pub >> \o digest

\* ------------------------------------------------------------------------
\* package core: the permanent envelope
\* ------------------------------------------------------------------------
GeneratePermanentEncryptedOperation(encrypted, keyId, nonce, nonceEncoded, issuerSignature, issuerSignatureEncoded, certifierSignature, certifierSignatureEncoded, requestType, payload, payloadEncoded) ==
    [ Encryption |->
        [ Encrypted |-> encrypted,
          KeyId |-> keyId,
          Nonce |-> IF ~nonceEncoded THEN Base64EncodeToString(nonce) ELSE nonce ],
      Issue |->
        [ Signature |-> IF ~issuerSignatureEncoded
                        THEN Base64EncodeToString(issuerSignature)
                        ELSE issuerSignature ],
      Certification |->
        [ Signature |-> IF ~certifierSignatureEncoded
                        THEN Base64EncodeToString(certifierSignature)
                        ELSE certifierSignature ],
      Meta |-> [ RequestType |-> requestType ],
      Payload |-> IF ~payloadEncoded THEN Base64EncodeToString(payload) ELSE payload ]

\* the signature hooks a caller passes: each returns the signature to store
\* and whether it is already encoded
SignatureHooks == { "keep", "encode", "raw", "flip", "foreign" }

ModifySignature(hook, signature) ==
    CASE hook = "keep" -> [ signature |-> signature, encoded |-> FALSE ]
      [] hook = "encode" ->
            [ signature |-> Base64EncodeToString(signature), encoded |-> TRUE ]
      [] hook = "raw" -> [ signature |-> signature, encoded |-> TRUE ]
      [] hook = "flip" ->
            [ signature |-> << "flipped" >> \o signature, encoded |-> FALSE ]
      [] hook = "foreign" ->
            [ signature |-> << "signed", "pub0" >> \o SubSeq(signature, 3, Len(signature)),
              encoded |-> FALSE ]

\* GeneratePermanentEncryptedOperationWithEncryption with a certifier
\* signature made over the ciphertext
GeneratePermanentEncryptedOperationWithEncryption_SignsCiphertext(keyId, permanentKey, permanentNonce, requestType, plainPayload, modifyIssuerSignature, modifyCertifierSignature, issuerKey, certifierKey) ==
    LET aead == NewAead(permanentKey)
        ciphertextPayload == SymmetricEncrypt(aead, << >>, permanentNonce, plainPayload)
        plainPayloadHashed == Hash(plainPayload)
        issuer == ModifySignature(modifyIssuerSignature,
                                  Sign(issuerKey, plainPayloadHashed))
        certifier == ModifySignature(modifyCertifierSignature,
                                     Sign(certifierKey, Hash(ciphertextPayload)))
    IN [ op |-> GeneratePermanentEncryptedOperation(
                    TRUE, keyId, permanentNonce, FALSE,
                    issuer.signature, issuer.encoded,
                    certifier.signature, certifier.encoded,
                    requestType, ciphertextPayload, FALSE),
         issuerKey |-> issuerKey,
         certifierKey |-> certifierKey ]

\* issuerKey and certifierKey are what the two generatePrivateKey calls return
GeneratePermanentEncryptedOperationWithEncryption(keyId, permanentKey, permanentNonce, requestType, plainPayload, modifyIssuerSignature, modifyCertifierSignature, issuerKey, certifierKey) ==
    LET aead == NewAead(permanentKey)
        ciphertextPayload == SymmetricEncrypt(aead, << >>, permanentNonce, plainPayload)
        plainPayloadHashed == Hash(plainPayload)
        issuer == ModifySignature(modifyIssuerSignature,
                                  Sign(issuerKey, plainPayloadHashed))
        certifier == ModifySignature(modifyCertifierSignature,
                                     Sign(certifierKey, plainPayloadHashed))
    IN [ op |-> GeneratePermanentEncryptedOperation(
                    TRUE, keyId, permanentNonce, FALSE,
                    issuer.signature, issuer.encoded,
                    certifier.signature, certifier.encoded,
                    requestType, ciphertextPayload, FALSE),
         issuerKey |-> issuerKey,
         certifierKey |-> certifierKey ]

\* PermanentEncryptedOperation.Decrypt: decrypt the payload, then verify both
\* signatures against the digest of the recovered plaintext
PermanentDecrypt(op, symmetricKey, issuerPub, certifierPub) ==
    LET nonce == Base64DecodeString(op.Encryption.Nonce)
        ciphertext == Base64DecodeString(op.Payload)
        issuerSignature == Base64DecodeString(op.Issue.Signature)
        certifierSignature == Base64DecodeString(op.Certification.Signature)
        plain == SymmetricDecrypt(NewAead(symmetricKey), << >>, nonce.bytes,
                                  ciphertext.bytes)
        digest == Hash(plain.bytes)
        failure(kind) == [ done |-> TRUE, ok |-> FALSE, err |-> kind, payload |-> << >> ]
    IN IF ~nonce.ok \/ ~ciphertext.ok THEN failure("ParseError")
       ELSE IF ~plain.ok THEN failure("CryptoError")
       ELSE IF ~issuerSignature.ok \/ ~certifierSignature.ok THEN failure("ParseError")
       ELSE IF ~Verify(issuerPub, digest, issuerSignature.bytes)
            THEN failure("AuthenticationError")
       ELSE IF ~Verify(certifierPub, digest, certifierSignature.bytes)
            THEN failure("AuthenticationError")
       ELSE [ done |-> TRUE, ok |-> TRUE, err |-> "", payload |-> plain.bytes ]

\* PermanentEncryptedOperation.Encode and its inverse: the JSON text of the
\* envelope, its fields in order between separators
BoolText(b) == IF b THEN << "true" >> ELSE << "false" >>

RequestTypes == { 1, 2 }

NumberText(n) == CASE n = 1 -> << "1" >> [] n = 2 -> << "2" >> [] OTHER -> << "0" >>

TextNumber(text) == CASE text = << "1" >> -> 1 [] text = << "2" >> -> 2 [] OTHER -> 0

Encode(op) ==
    << "json" >> \o BoolText(op.Encryption.Encrypted) \o << "," >>
        \o op.Encryption.KeyId \o << "," >> \o op.Encryption.Nonce \o << "," >>
        \o op.Issue.Signature \o << "," >> \o op.Certification.Signature \o << "," >>
        \o NumberText(op.Meta.RequestType) \o << "," >> \o op.Payload

RECURSIVE SplitFields(_, _, _)
SplitFields(text, i, current) ==
    IF i > Len(text) THEN << current >>
    ELSE IF text[i] = "," THEN << current >> \o SplitFields(text, i + 1, << >>)
    ELSE SplitFields(text, i + 1, Append(current, text[i]))

Decode(text) ==
    LET fields == SplitFields(text, 2, << >>)
    IN IF Len(text) > 0 /\ text[1] = "json" /\ Len(fields) = 7
       THEN [ ok |-> TRUE,
              op |-> [ Encryption |-> [ Encrypted |-> fields[1] = << "true" >>,
                                        KeyId |-> fields[2],
                                        Nonce |-> fields[3] ],
                       Issue |-> [ Signature |-> fields[4] ],
                       Certification |-> [ Signature |-> fields[5] ],
                       Meta |-> [ RequestType |-> TextNumber(fields[6]) ],
                       Payload |-> fields[7] ] ]
       ELSE [ ok |-> FALSE,
              op |-> GeneratePermanentEncryptedOperation(
                        FALSE, << >>, << >>, TRUE, << >>, TRUE, << >>, TRUE,
                        0, << >>, TRUE) ]

\* ------------------------------------------------------------------------
\* package core: the temporary envelope
\* ------------------------------------------------------------------------
GenerateTemporaryEncryptedOperation_PayloadAsIs(encrypted, challenges, nonce, nonceEncoded, payload, payloadEncoded) ==
    [ Version |-> "0.1",
      Encryption |->
        [ Encrypted |-> encrypted,
          Challenges |-> challenges,
          Nonce |-> IF ~nonceEncoded THEN Base64EncodeToString(nonce) ELSE nonce ],
      Payload |-> payload ]

GenerateTemporaryEncryptedOperation(encrypted, challenges, nonce, nonceEncoded, payload, payloadEncoded) ==
    [ Version |-> "0.1",
      Encryption |->
        [ Encrypted |-> encrypted,
          Challenges |-> challenges,
          Nonce |-> IF ~nonceEncoded THEN Base64EncodeToString(nonce) ELSE nonce ],
      Payload |-> IF ~payloadEncoded THEN Base64EncodeToString(payload) ELSE payload ]

\* a map of one entry
MapOf(k, v) == [ x \in { k } |-> v ]

\* the map with the entries of extra added or overwritten
MapPut(map, extra) ==
    [ x \in DOMAIN map \cup DOMAIN extra |-> IF x \in DOMAIN extra THEN extra[x] ELSE map[x] ]

\* the entry a hook builds for the recipient rsa2 out of its own key, nonce
\* and challenge: a hook sees the map, not the temporary key and nonce
ForeignEntry ==
    MapOf(Base64EncodeToString(AsymmetricEncrypt(PublicKey("rsa2"), << "key0" >>)),
          Base64EncodeToString(
              SymmetricEncrypt(<< "key0" >>, << >>, << "nonce0" >>, << "CHALLENGE" >>)))

\* the challenge-map hooks a caller passes
ChallengeHooks == { "keep", "addRandom", "addRecipient", "clear", "corrupt" }

ModifyChallenges(hook, challenges) ==
    CASE hook = "keep" -> challenges
      [] hook = "addRandom" ->
            MapPut(MapPut(challenges, MapOf(<< "random" >>, << "test" >>)),
                   MapOf(<< "random2" >>, << "test2" >>))
      [] hook = "addRecipient" -> MapPut(challenges, ForeignEntry)
      [] hook = "clear" -> [ x \in {} |-> << >> ]
      [] hook = "corrupt" -> [ x \in DOMAIN challenges |-> << "test" >> ]

\* "nil" is the nil recipientKey
NilKey == "nil"

\* GenerateTemporaryEncryptedOperationWithEncryption encrypting the temporary
\* key for the key it generated even when it was given one
GenerateTemporaryEncryptedOperationWithEncryption_IgnoresRecipient(plainPayload, plaintextChallenge, modifyChallenges, recipientKey, temporaryNonce, temporaryKey, generatedKey) ==
    LET aead == NewAead(temporaryKey)
        payloadCiphertext == SymmetricEncrypt(aead, << >>, temporaryNonce, plainPayload)
        challengeCiphertext ==
            SymmetricEncrypt(aead, << >>, temporaryNonce, plaintextChallenge)
        key == IF recipientKey = NilKey THEN generatedKey ELSE recipientKey
        symKeyEncrypted == AsymmetricEncrypt(PublicKey(generatedKey), temporaryKey)
        challenges == ModifyChallenges(modifyChallenges,
                          MapOf(Base64EncodeToString(symKeyEncrypted),
                                Base64EncodeToString(challengeCiphertext)))
    IN [ op |-> GenerateTemporaryEncryptedOperation(
                    TRUE, challenges, temporaryNonce, FALSE, payloadCiphertext, FALSE),
         key |-> key ]

\* temporaryNonce and temporaryKey are what the two generateRandomBytes calls
\* return, generatedKey what generatePrivateKey would return
GenerateTemporaryEncryptedOperationWithEncryption(plainPayload, plaintextChallenge, modifyChallenges, recipientKey, temporaryNonce, temporaryKey, generatedKey) ==
    LET aead == NewAead(temporaryKey)
        payloadCiphertext == SymmetricEncrypt(aead, << >>, temporaryNonce, plainPayload)
        challengeCiphertext ==
            SymmetricEncrypt(aead, << >>, temporaryNonce, plaintextChallenge)
        key == IF recipientKey = NilKey THEN generatedKey ELSE recipientKey
        symKeyEncrypted == AsymmetricEncrypt(PublicKey(key), temporaryKey)
        challenges == ModifyChallenges(modifyChallenges,
                          MapOf(Base64EncodeToString(symKeyEncrypted),
                                Base64EncodeToString(challengeCiphertext)))
    IN [ op |-> GenerateTemporaryEncryptedOperation(
                    TRUE, challenges, temporaryNonce, FALSE, payloadCiphertext, FALSE),
         key |-> key ]

\* the symmetric key a map entry gives to the holder of priv
EntryKey(entry, priv) ==
    LET cipher == Base64DecodeString(entry)
    IN IF cipher.ok THEN AsymmetricDecrypt(priv, cipher.bytes) ELSE Failed

\* TemporaryEncryptedOperation.Decrypt, the test of one entry: priv decrypts
\* its key and its value then decrypts to the expected challenge
EntryMatches(op, priv, expected, entry) ==
    LET key == EntryKey(entry, priv)
        nonce == Base64DecodeString(op.Encryption.Nonce)
        value == Base64DecodeString(op.Encryption.Challenges[entry])
        challenge == SymmetricDecrypt(NewAead(key.bytes), << >>, nonce.bytes,
                                      value.bytes)
    IN key.ok /\ nonce.ok /\ value.ok /\ challenge.ok /\ challenge.bytes = expected

\* the entries of the challenges map that pass the test
MatchingEntries(op, priv, expected) ==
    { entry \in DOMAIN op.Encryption.Challenges : EntryMatches(op, priv, expected, entry) }

\* TemporaryEncryptedOperation.Decrypt once the search accepted an entry: the
\* payload under the key of that entry
TemporaryDecryptWith(op, priv, entry) ==
    LET key == EntryKey(entry, priv)
        nonce == Base64DecodeString(op.Encryption.Nonce)
        ciphertext == Base64DecodeString(op.Payload)
        plain == SymmetricDecrypt(NewAead(key.bytes), << >>, nonce.bytes,
                                  ciphertext.bytes)
        failure(kind) == [ done |-> TRUE, ok |-> FALSE, err |-> kind, payload |-> << >> ]
    IN IF ~ciphertext.ok THEN failure("ParseError")
       ELSE IF ~plain.ok THEN failure("CryptoError")
       ELSE [ done |-> TRUE, ok |-> TRUE, err |-> "", payload |-> plain.bytes ]

\* what Decrypt returns when no entry was accepted
NoEntryAccepted ==
    [ done |-> TRUE, ok |-> FALSE, err |-> "AuthenticationError", payload |-> << >> ]

\* the orders in which the entries of a map can be tried: the map has no
\* ordering of its own
Orders(entries) ==
    { order \in [ 1..Cardinality(entries) -> entries ] :
        \A i, j \in 1..Cardinality(entries) : order[i] = order[j] => i = j }

\* the search giving up at the first entry that is not accepted instead of
\* going on to the next one
RECURSIVE TemporaryDecryptFrom_FirstEntryOnly(_, _, _, _, _)
TemporaryDecryptFrom_FirstEntryOnly(op, priv, expected, order, i) ==
    IF i > Len(order) THEN NoEntryAccepted
    ELSE IF EntryMatches(op, priv, expected, order[i])
         THEN TemporaryDecryptWith(op, priv, order[i])
         ELSE NoEntryAccepted

\* TemporaryEncryptedOperation.Decrypt, the search: the entries are tried one
\* after the other from the i-th of order on, the first that passes the test
\* is accepted and the others are not looked at
RECURSIVE TemporaryDecryptFrom(_, _, _, _, _)
TemporaryDecryptFrom(op, priv, expected, order, i) ==
    IF i > Len(order) THEN NoEntryAccepted
    ELSE IF EntryMatches(op, priv, expected, order[i])
         THEN TemporaryDecryptWith(op, priv, order[i])
         ELSE TemporaryDecryptFrom(op, priv, expected, order, i + 1)

\* the results Decrypt can return: one for each order the map can be tried in
TemporaryDecrypt(op, priv, expected) ==
    { TemporaryDecryptFrom(op, priv, expected, order, 1) :
        order \in Orders(DOMAIN op.Encryption.Challenges) }

\* ------------------------------------------------------------------------
\* What the variables of package core hold before anything is sealed
\* ------------------------------------------------------------------------
NoResult == [ done |-> FALSE, ok |-> FALSE, err |-> "", payload |-> << >> ]

NoPermanentOperation ==
    GeneratePermanentEncryptedOperation(FALSE, << >>, << >>, TRUE, << >>, TRUE,
                                        << >>, TRUE, 0, << >>, TRUE)

\* the zero value of TemporaryEncryptedOperation: no constructor ran, so
\* Version is 0 and not the 0.1 the constructor stores
NoTemporaryOperation ==
    [ Version |-> "0",
      Encryption |->
        [ Encrypted |-> FALSE,
          Challenges |-> [ x \in {} |-> << >> ],
          Nonce |-> << >> ],
      Payload |-> << >> ]

TemporaryIdle ==
    /\ tempOp = NoTemporaryOperation
    /\ tempKey = NilKey
    /\ tempIn = [ sealed |-> FALSE, plainPayload |-> << >>,
                  plaintextChallenge |-> << >>, modifyChallenges |-> "keep",
                  recipientKey |-> NilKey, temporaryNonce |-> << >>,
                  temporaryKey |-> << >> ]
    /\ tempOut = [ priv |-> NilKey, expected |-> << >>, order |-> << >>,
                   result |-> NoResult ]

PermanentIdle ==
    /\ permOp = NoPermanentOperation
    /\ permKeys = [ issuerKey |-> NilKey, certifierKey |-> NilKey ]
    /\ permIn = [ sealed |-> FALSE, keyId |-> << >>, permanentKey |-> << >>,
                  permanentNonce |-> << >>, requestType |-> 0, plainPayload |-> << >>,
                  modifyIssuerSignature |-> "keep",
                  modifyCertifierSignature |-> "keep", altered |-> "no" ]
    /\ permOut = [ symmetricKey |-> << >>, issuerPub |-> "pub0",
                   certifierPub |-> "pub0", result |-> NoResult ]

\* ------------------------------------------------------------------------
\* package status: tickets and UpdateStatus
\* ------------------------------------------------------------------------
QueuedStatus == 0

RunningStatus == 1

SuccessStatus == 2

FailedStatus == 3

NoReason == 0

RejectedReason == 1

FailedReason == 2

\* the codes a caller can pass, those next to the enumerations included
StatusCodes == (QueuedStatus - 1)..(FailedStatus + 1)

ReasonCodes == (NoReason - 1)..(FailedReason + 1)

NothingRecorded == [ recorded |-> FALSE, status |-> QueuedStatus, reason |-> NoReason ]

\* UpdateStatus taking the code after the last status for a status
UpdateStatus_OffByOne(isRunning, status, reason) ==
    IF status < QueuedStatus \/ status > FailedStatus + 1 THEN "statusRangeError"
    ELSE IF reason < NoReason \/ reason > FailedReason + 1 THEN "failedRangeError"
    ELSE IF ~isRunning THEN "serverDownError"
    ELSE "nil"

\* UpdateStatus looking at the server before it looks at the codes
UpdateStatus_ServerCheckFirst(isRunning, status, reason) ==
    IF ~isRunning THEN "serverDownError"
    ELSE IF status < QueuedStatus \/ status > FailedStatus THEN "statusRangeError"
    ELSE IF reason < NoReason \/ reason > FailedReason THEN "failedRangeError"
    ELSE "nil"

\* the error UpdateStatus returns; "nil" when the update is recorded
UpdateStatus(isRunning, status, reason) ==
    IF status < QueuedStatus \/ status > FailedStatus THEN "statusRangeError"
    ELSE IF reason < NoReason \/ reason > FailedReason THEN "failedRangeError"
    ELSE IF ~isRunning THEN "serverDownError"
    ELSE "nil"

StatusIdle ==
    /\ running = FALSE
    /\ tickets = << >>
    /\ statusErr = [ called |-> FALSE, ticket |-> 0, status |-> QueuedStatus,
                     reason |-> NoReason, err |-> "nil", before |-> NothingRecorded,
                     isRunning |-> FALSE, wasStarted |-> FALSE ]
    /\ started = FALSE

\* ------------------------------------------------------------------------
\* package main: termination causes and the mapping of signals
\* ------------------------------------------------------------------------
NoTermination == 0

FatalError == 1

UserInterrupted == 2

SystemTerminated == 3

TerminationCauses == { NoTermination, FatalError, UserInterrupted, SystemTerminated }

\* the signals raised in the model: the four the literal lists and one it
\* does not
ListedSignals == { "SIGHUP", "SIGINT", "SIGTERM", "SIGQUIT" }

Signals == ListedSignals \cup { "SIGWINCH" }

\* os.Interrupt is the variable of package os that holds syscall.SIGINT
OsInterrupt == "SIGINT"

terminationCauseMessageMapping ==
    [ cause \in { FatalError, UserInterrupted, SystemTerminated } |->
        CASE cause = FatalError -> "Fatal runtime error occured"
          [] cause = UserInterrupted -> "Detected user interruption"
          [] cause = SystemTerminated -> "Detected system termination" ]

\* terminationCauseMessageMapping[cause]: the empty string for a missing key
terminationCauseMessage(cause) ==
    IF cause \in DOMAIN terminationCauseMessageMapping
    THEN terminationCauseMessageMapping[cause]
    ELSE ""

\* the entries of the signalMapping literal, in the order it lists them
signalMappingEntries ==
    << << OsInterrupt, UserInterrupted >>,
       << "SIGHUP", SystemTerminated >>,
       << "SIGINT", SystemTerminated >>,
       << "SIGTERM", SystemTerminated >>,
       << "SIGQUIT", SystemTerminated >> >>

\* the maps the literal can build. It lists SIGINT twice, once through the
\* variable os.Interrupt, which the compiler does not reject; which of the two
\* entries is stored last, and so kept, the language leaves to the build.
SignalMappings ==
    LET keys == { signalMappingEntries[i][1] : i \in DOMAIN signalMappingEntries }
    IN { m \in [ keys -> TerminationCauses ] :
            \A k \in keys : \E i \in DOMAIN signalMappingEntries :
                signalMappingEntries[i] = << k, m[k] >> }

\* the map before the package is initialized: nil
NilMapping == [ sig \in {} |-> NoTermination ]

\* signalMapping[sig]: the zero value for a missing key
mapSystemSignal(sig) ==
    IF sig \in DOMAIN signalMapping THEN signalMapping[sig] ELSE NoTermination

isTerminal(terminationCause) == terminationCause # NoTermination

\* the signals that end a Go process for which nobody asked to be notified
FatalByDefault == { "SIGHUP", "SIGINT", "SIGTERM", "SIGQUIT" }

\* cap(signalChannel)
SignalChannelSize == 1

TerminationIdle ==
    /\ signalMapping = NilMapping
    /\ signalChannel = << >>
    /\ listener = [ pc |-> "none", cause |-> NoTermination ]
    /\ main = [ pc |-> "init", cause |-> NoTermination ]
    /\ received = << >>
    /\ raised = << >>
    /\ logged = ""

OutsideUsersIdle == TemporaryIdle /\ PermanentIdle /\ StatusIdle /\ TerminationIdle

\* ------------------------------------------------------------------------
\* Spec: one record, requests applied one after the other
\* ------------------------------------------------------------------------
Replicas == { "A", "B" }

Callers == { "c1", "c2" }

MergeIdle ==
    /\ record = FreshRecord
    /\ prev = FreshRecord
    /\ req = NoRequest
    /\ prevReq = NoRequest
    /\ acc = << >>
    /\ ops = 0
    /\ setBy = [ f \in FieldPaths |-> NoRequest ]

ReplicaIdle ==
    /\ start = FreshRecord
    /\ replica = [ p \in Replicas |-> FreshRecord ]
    /\ reqs = {}
    /\ applied = [ p \in Replicas |-> {} ]
    /\ last = [ p \in Replicas |-> NoRequest ]

CallerIdle ==
    /\ pc = [ c \in Callers |-> "done" ]
    /\ call = [ c \in Callers |-> NoRequest ]

UsersIdle == MergeIdle /\ ReplicaIdle /\ CallerIdle

Init == UsersIdle /\ OutsideUsersIdle

ApplyUpdateRequest ==
    /\ ops < MaxOps
    /\ \E r \in Requests :
          LET res == applyUpdateRequest(record, r)
          IN /\ record' = res.record
             /\ acc' = res.out
             /\ req' = r
             /\ setBy' = [ f \in FieldPaths |->
                             IF \E i \in 1..Len(res.out) :
                                    res.out[i].field = f /\ res.out[i].ok
                             THEN r ELSE setBy[f] ]
    /\ prev' = record
    /\ prevReq' = req
    /\ ops' = ops + 1
    /\ UNCHANGED <<replicaVars, callerVars, outsideUsers>>

Next == ApplyUpdateRequest

Spec == Init /\ [][Next]_vars

\* ------------------------------------------------------------------------
\* Reading a record and a request by field path
\* ------------------------------------------------------------------------
\* the leaf a field path names, as value and timestamp
Leaf(rec, field) ==
    CASE field = "active" ->
            [ val |-> rec.Active.Ok, UpdatedAt |-> rec.Active.UpdatedAt ]
      [] field = "encKey" ->
            [ val |-> rec.EncKey.Key, UpdatedAt |-> rec.EncKey.UpdatedAt ]
      [] field = "signKey" ->
            [ val |-> rec.SignKey.Key, UpdatedAt |-> rec.SignKey.UpdatedAt ]
      [] field = "permissions.channel.add" ->
            [ val |-> rec.Permissions.Channel.Add.Ok,
              UpdatedAt |-> rec.Permissions.Channel.Add.UpdatedAt ]
      [] field = "permissions.user.add" ->
            [ val |-> rec.Permissions.User.Add.Ok,
              UpdatedAt |-> rec.Permissions.User.Add.UpdatedAt ]
      [] field = "permissions.user.remove" ->
            [ val |-> rec.Permissions.User.Remove.Ok,
              UpdatedAt |-> rec.Permissions.User.Remove.UpdatedAt ]
      [] field = "permissions.user.encKeyUpdate" ->
            [ val |-> rec.Permissions.User.EncKeyUpdate.Ok,
              UpdatedAt |-> rec.Permissions.User.EncKeyUpdate.UpdatedAt ]
      [] field = "permissions.user.signKeyUpdate" ->
            [ val |-> rec.Permissions.User.SignKeyUpdate.Ok,
              UpdatedAt |-> rec.Permissions.User.SignKeyUpdate.UpdatedAt ]
      [] field = "permissions.user.permissionsUpdate" ->
            [ val |-> rec.Permissions.User.PermissionsUpdate.Ok,
              UpdatedAt |-> rec.Permissions.User.PermissionsUpdate.UpdatedAt ]

\* the value a request carries for a field path
Candidate(r, field) ==
    CASE field = "active" -> r.Data.Active
      [] field = "encKey" -> r.Data.encKeyObject
      [] field = "signKey" -> r.Data.signKeyObject
      [] field = "permissions.channel.add" -> r.Data.Permissions.Channel.Add
      [] field = "permissions.user.add" -> r.Data.Permissions.User.Add
      [] field = "permissions.user.remove" -> r.Data.Permissions.User.Remove
      [] field = "permissions.user.encKeyUpdate" ->
            r.Data.Permissions.User.EncKeyUpdate
      [] field = "permissions.user.signKeyUpdate" ->
            r.Data.Permissions.User.SignKeyUpdate
      [] field = "permissions.user.permissionsUpdate" ->
            r.Data.Permissions.User.PermissionsUpdate

Max2(a, b) == IF a >= b THEN a ELSE b

MaxOf(S) == CHOOSE m \in S : \A x \in S : m >= x

\* ------------------------------------------------------------------------
\* Claims on the merge of one record (Spec)
\* ------------------------------------------------------------------------

\* C1: roll-up invariant. In every state reached from a fresh record by
\* applyUpdateRequest calls, every container's UpdatedAt is the maximum of
\* the UpdatedAt of what it holds.
C1_RollUpIsMax ==
    /\ record.Permissions.Channel.UpdatedAt =
          record.Permissions.Channel.Add.UpdatedAt
    /\ record.Permissions.User.UpdatedAt =
          MaxOf({ Leaf(record, f).UpdatedAt : f \in UserPermissionPaths })
    /\ record.Permissions.UpdatedAt =
          Max2(record.Permissions.Channel.UpdatedAt,
               record.Permissions.User.UpdatedAt)
    /\ record.UpdatedAt =
          MaxOf({ record.EncKey.UpdatedAt, record.SignKey.UpdatedAt,
                  record.Active.UpdatedAt, record.Permissions.UpdatedAt })

\* C4: idempotence. When the request just applied is the one applied right
\* before it, the second application left the whole record as it was and
\* every leaf update it made returned false.
C4_Idempotent ==
    (ops >= 2 /\ req = prevReq) =>
        /\ record = prev
        /\ \A i \in 1..Len(acc) : ~acc[i].ok

\* C4 witness: a request naming a known path was applied twice in a row, the
\* first application having changed the record.
C4_Witness ==
    /\ ops >= 2
    /\ req = prevReq
    /\ Len(acc) > 0
    /\ record # FreshRecord

\* the leaf updates of the last call that were the first on their leaf: they
\* saw the leaf as it was before the call
FirstOnLeaf == { i \in 1..Len(acc) : \A j \in 1..(i - 1) : acc[j].field # acc[i].field }

\* C5: a leaf update is accepted exactly when the request timestamp is
\* strictly after the leaf's UpdatedAt; on a tie the leaf keeps its value and
\* timestamp whatever the candidate value is.
C5_AcceptIffStrictlyAfter ==
    /\ \A i \in FirstOnLeaf :
          acc[i].ok <=> (req.Timestamp > Leaf(prev, acc[i].field).UpdatedAt)
    /\ \A i \in 1..Len(acc) :
          LET f == acc[i].field
          IN /\ (req.Timestamp = Leaf(prev, f).UpdatedAt) =>
                    /\ ~acc[i].ok
                    /\ Leaf(record, f) = Leaf(prev, f)
             /\ (req.Timestamp > Leaf(prev, f).UpdatedAt) =>
                    Leaf(record, f) =
                        [ val |-> Candidate(req, f), UpdatedAt |-> req.Timestamp ]
             /\ (req.Timestamp < Leaf(prev, f).UpdatedAt) =>
                    Leaf(record, f) = Leaf(prev, f)

\* C5 witness: a request whose timestamp equals the leaf's, carrying another
\* value than the leaf holds, was applied and rejected.
C5_Witness ==
    /\ Len(acc) = 1
    /\ ~acc[1].ok
    /\ req.Timestamp = Leaf(prev, acc[1].field).UpdatedAt
    /\ Candidate(req, acc[1].field) # Leaf(prev, acc[1].field).val

\* ------------------------------------------------------------------------
\* SpecReplica: two replicas of one record receive the same set of requests,
\* each in its own order and as often as it happens
\* ------------------------------------------------------------------------
\* the requests delivered to replicas name one field path each: a boolean
\* and a key of the record itself, the channel permission, two user
\* permissions, and a path without a case
ReplicaPaths ==
    { "active", "encKey", "permissions.channel.add", "permissions.user.add",
      "permissions.user.remove", UnknownPath }

ReplicaRequests ==
    { UserRequest(<<f>>, t, d) : f \in ReplicaPaths, t \in Timestamps, d \in DataPool }

\* a request both replicas applied before the set is delivered
Seed ==
    /\ reqs = {}
    /\ ops < MaxSeed
    /\ \E r \in ReplicaRequests :
          LET res == applyUpdateRequest(start, r)
          IN /\ start' = res.record
             /\ replica' = [ p \in Replicas |-> res.record ]
    /\ ops' = ops + 1
    /\ UNCHANGED <<record, prev, req, prevReq, acc, setBy, reqs, applied, last, callerVars,
                   outsideUsers>>

Submit ==
    /\ \A p \in Replicas : applied[p] = {}
    /\ Cardinality(reqs) < MaxReqs
    /\ \E r \in ReplicaRequests \ reqs : reqs' = reqs \cup {r}
    /\ UNCHANGED <<mergeVars, start, replica, applied, last, callerVars, outsideUsers>>

Deliver ==
    /\ \E p \in Replicas, r \in reqs :
          /\ replica' = [ replica EXCEPT ![p] = applyUpdateRequest(replica[p], r).record ]
          /\ applied' = [ applied EXCEPT ![p] = applied[p] \cup {r} ]
          /\ last' = [ last EXCEPT ![p] = r ]
    /\ UNCHANGED <<mergeVars, start, reqs, callerVars, outsideUsers>>

NextReplica == Seed \/ Submit \/ Deliver

SpecReplica == Init /\ [][NextReplica]_vars

\* C2: convergence. Once both replicas have applied every request of the
\* set, in whatever order and however often, they hold the same record.
C2_Converged ==
    (reqs # {} /\ \A p \in Replicas : applied[p] = reqs) =>
        replica["A"] = replica["B"]

\* what does converge: the leaves, value and timestamp, when the requests to
\* one field all carry different timestamps
DistinctTimestamps ==
    \A r1, r2 \in reqs :
        (r1 # r2 /\ r1.FieldsUpdated = r2.FieldsUpdated) => r1.Timestamp # r2.Timestamp

LeavesConverged ==
    (reqs # {} /\ DistinctTimestamps /\ \A p \in Replicas : applied[p] = reqs) =>
        \A f \in FieldPaths : Leaf(replica["A"], f) = Leaf(replica["B"], f)

\* C3: last writer wins. A replica that has applied exactly two requests to
\* one field, with timestamps T1 < T2 both after the field's UpdatedAt in the
\* starting record, holds the T2 value with UpdatedAt = T2, whichever of the
\* two it applied first.
C3_LastWriterWins ==
    \A p \in Replicas : \A r1, r2 \in reqs :
        ( /\ applied[p] = { r1, r2 }
          /\ r1.FieldsUpdated = r2.FieldsUpdated
          /\ r1.FieldsUpdated[1] \in FieldPaths
          /\ r1.Timestamp < r2.Timestamp
          /\ r1.Timestamp > Leaf(start, r1.FieldsUpdated[1]).UpdatedAt )
        => Leaf(replica[p], r2.FieldsUpdated[1]) =
              [ val |-> Candidate(r2, r2.FieldsUpdated[1]), UpdatedAt |-> r2.Timestamp ]

\* C3 witness: a replica applied the T2 request first and the T1 request
\* last, to a field of a record that was no longer fresh, with another value.
C3_Witness ==
    \E p \in Replicas : \E r1, r2 \in reqs :
        /\ applied[p] = { r1, r2 }
        /\ last[p] = r1
        /\ r1.FieldsUpdated = r2.FieldsUpdated
        /\ r1.FieldsUpdated[1] \in FieldPaths
        /\ r1.Timestamp < r2.Timestamp
        /\ r1.Timestamp > Leaf(start, r1.FieldsUpdated[1]).UpdatedAt
        /\ Leaf(start, r1.FieldsUpdated[1]).UpdatedAt > CreationTime
        /\ Candidate(r1, r1.FieldsUpdated[1]) # Candidate(r2, r1.FieldsUpdated[1])

\* ------------------------------------------------------------------------
\* SpecCallers: two callers run applyUpdateRequest on the same record at the
\* same time. Neither applyUpdateRequest nor update takes a lock, and the
\* record holds none, so the reads and writes of the two calls interleave.
\* ------------------------------------------------------------------------
\* the write of a leaf through its field path
StoreLeaf(rec, field, val, t) ==
    CASE field = "active" -> [ rec EXCEPT !.Active = booleanRecord(val, t) ]
      [] field = "encKey" -> [ rec EXCEPT !.EncKey = keyRecord(val, t) ]
      [] field = "signKey" -> [ rec EXCEPT !.SignKey = keyRecord(val, t) ]
      [] field = "permissions.channel.add" ->
            [ rec EXCEPT !.Permissions.Channel.Add = booleanRecord(val, t) ]
      [] field \in UserPermissionPaths ->
            setUserPermission(rec, field, booleanRecord(val, t))

\* the containers applyUpdateRequest writes after an accepted update, in the
\* order of its assignments
Rollups(field) ==
    CASE field \in { "active", "encKey", "signKey" } -> << "record" >>
      [] field = "permissions.channel.add" ->
            << "record", "permissions", "channel" >>
      [] field \in UserPermissionPaths -> << "record", "permissions", "user" >>

StoreRollup(rec, container, t) ==
    CASE container = "record" -> [ rec EXCEPT !.UpdatedAt = t ]
      [] container = "permissions" -> [ rec EXCEPT !.Permissions.UpdatedAt = t ]
      [] container = "channel" -> [ rec EXCEPT !.Permissions.Channel.UpdatedAt = t ]
      [] container = "user" -> [ rec EXCEPT !.Permissions.User.UpdatedAt = t ]

CallerRequests ==
    { UserRequest(<<f>>, t, d) : f \in FieldPaths, t \in Timestamps, d \in DataPool }

CallField(c) == call[c].FieldsUpdated[1]

InitCallers ==
    /\ MergeIdle
    /\ ReplicaIdle
    /\ OutsideUsersIdle
    /\ call \in { f \in [ Callers -> CallerRequests ] :
                      f["c1"].FieldsUpdated = f["c2"].FieldsUpdated }
    /\ pc = [ c \in Callers |-> "compare" ]

\* update: if time.After(perm.UpdatedAt)
Compare ==
    \E c \in Callers :
        /\ pc[c] = "compare"
        /\ pc' = [ pc EXCEPT ![c] =
                      IF After(call[c].Timestamp, Leaf(record, CallField(c)).UpdatedAt)
                      THEN "setValue" ELSE "done" ]
        /\ UNCHANGED <<mergeVars, replicaVars, call, outsideUsers>>

\* update: perm.Ok = val, keyRec.Key = val
SetValue ==
    \E c \in Callers :
        /\ pc[c] = "setValue"
        /\ record' = StoreLeaf(record, CallField(c), Candidate(call[c], CallField(c)),
                               Leaf(record, CallField(c)).UpdatedAt)
        /\ pc' = [ pc EXCEPT ![c] = "setUpdatedAt" ]
        /\ UNCHANGED <<prev, req, prevReq, acc, ops, setBy, replicaVars, call, outsideUsers>>

\* update: perm.UpdatedAt = time, keyRec.UpdatedAt = time; return true
SetUpdatedAt ==
    \E c \in Callers :
        /\ pc[c] = "setUpdatedAt"
        /\ record' = StoreLeaf(record, CallField(c), Leaf(record, CallField(c)).val,
                               call[c].Timestamp)
        /\ pc' = [ pc EXCEPT ![c] = "rollup1" ]
        /\ UNCHANGED <<prev, req, prevReq, acc, ops, setBy, replicaVars, call, outsideUsers>>

RollupStep(label) ==
    CASE label = "rollup1" -> 1 [] label = "rollup2" -> 2 [] label = "rollup3" -> 3

RollupLabel(i) ==
    CASE i = 1 -> "rollup1" [] i = 2 -> "rollup2" [] i = 3 -> "rollup3"

\* applyUpdateRequest: one assignment of req.Timestamp to a container
Rollup ==
    \E c \in Callers :
        /\ pc[c] \in { "rollup1", "rollup2", "rollup3" }
        /\ LET i == RollupStep(pc[c])
               path == Rollups(CallField(c))
           IN /\ record' = StoreRollup(record, path[i], call[c].Timestamp)
              /\ pc' = [ pc EXCEPT ![c] =
                            IF i = Len(path) THEN "done" ELSE RollupLabel(i + 1) ]
        /\ UNCHANGED <<prev, req, prevReq, acc, ops, setBy, replicaVars, call, outsideUsers>>

NextCallers == Compare \/ SetValue \/ SetUpdatedAt \/ Rollup

SpecCallers == InitCallers /\ [][NextCallers]_vars

\* C6: concurrent application. When two callers have applied requests with
\* timestamps T1 < T2 to the same field at the same time, the field holds
\* the T2 value with UpdatedAt = T2.
C6_RaceFree ==
    \A c1, c2 \in Callers :
        ( /\ pc[c1] = "done" /\ pc[c2] = "done"
          /\ call[c1].Timestamp < call[c2].Timestamp )
        => Leaf(record, CallField(c2)) =
              [ val |-> Candidate(call[c2], CallField(c2)),
                UpdatedAt |-> call[c2].Timestamp ]

\* ------------------------------------------------------------------------
\* SpecTemporary: temporary envelopes are sealed and opened
\* ------------------------------------------------------------------------
\* the permanent envelope of TestValidOperation
ValidPermanentOperation ==
    GeneratePermanentEncryptedOperationWithEncryption(
        << "KEY_ID" >>, << "key1" >>, << "nonce1" >>, 1, << "REQUEST_PAYLOAD" >>,
        "keep", "keep", "rsa1", "rsa2").op

Payloads == { << "REQUEST_PAYLOAD" >>, << >>, Encode(ValidPermanentOperation) }

ChallengeTexts == { << "CHALLENGE" >>, << "OTHER_CHALLENGE" >> }

SealTemporary ==
    /\ ~tempIn.sealed
    /\ \E plainPayload \in Payloads, plaintextChallenge \in ChallengeTexts,
          modifyChallenges \in ChallengeHooks, recipientKey \in KeyPairs \cup { NilKey },
          temporaryNonce \in Nonces, temporaryKey \in SymmetricKeys,
          generatedKey \in KeyPairs :
          LET sealed == GenerateTemporaryEncryptedOperationWithEncryption(
                            plainPayload, plaintextChallenge, modifyChallenges,
                            recipientKey, temporaryNonce, temporaryKey, generatedKey)
          IN /\ tempOp' = sealed.op
             /\ tempKey' = sealed.key
             /\ tempIn' = [ sealed |-> TRUE, plainPayload |-> plainPayload,
                            plaintextChallenge |-> plaintextChallenge,
                            modifyChallenges |-> modifyChallenges,
                            recipientKey |-> recipientKey,
                            temporaryNonce |-> temporaryNonce,
                            temporaryKey |-> temporaryKey ]
    /\ tempOut' = [ priv |-> NilKey, expected |-> << >>, order |-> << >>,
                    result |-> NoResult ]
    /\ UNCHANGED <<usersVars, terminationVars, permanentVars, statusVars>>

OpenTemporary ==
    /\ tempIn.sealed
    /\ \E priv \in KeyPairs, expected \in ChallengeTexts :
          \E order \in Orders(DOMAIN tempOp.Encryption.Challenges) :
              tempOut' = [ priv |-> priv, expected |-> expected, order |-> order,
                           result |-> TemporaryDecryptFrom(tempOp, priv, expected,
                                                           order, 1) ]
    /\ UNCHANGED <<usersVars, terminationVars, tempOp, tempKey, tempIn, permanentVars, statusVars>>

NextTemporary == SealTemporary \/ OpenTemporary

SpecTemporary == Init /\ [][NextTemporary]_vars

\* the hook left the entry the sealing made for the recipient in the map
RecipientEntryKept == tempIn.modifyChallenges \in { "keep", "addRandom", "addRecipient" }

\* C7: round trip. Opening a sealed temporary envelope with the recipient's
\* private key and the challenge it was sealed with, the recipient's entry
\* being in the map, succeeds and returns the payload that was sealed; a
\* serialized permanent envelope sealed as payload decodes to that envelope.
C7_RoundTrip ==
    ( /\ tempOut.result.done
      /\ tempOut.priv = tempKey
      /\ tempOut.expected = tempIn.plaintextChallenge
      /\ RecipientEntryKept )
    => /\ tempOut.result.ok
       /\ tempOut.result.payload = tempIn.plainPayload
       /\ (tempIn.plainPayload = Encode(ValidPermanentOperation)) =>
             /\ Decode(tempOut.result.payload).ok
             /\ Decode(tempOut.result.payload).op = ValidPermanentOperation

\* C7 witness: the serialized permanent envelope, sealed for a key the
\* sealing generated under a hook that added entries, was opened.
C7_Witness ==
    /\ tempOut.result.done
    /\ tempOut.result.ok
    /\ tempOut.priv = tempKey
    /\ tempIn.recipientKey = NilKey
    /\ tempIn.modifyChallenges = "addRandom"
    /\ tempIn.plainPayload = Encode(ValidPermanentOperation)
    /\ Decode(tempOut.result.payload).op = ValidPermanentOperation

\* the private keys a map entry was made for at sealing time: the recipient
\* the sealing returned, and the recipient of the entry a hook added
SealedFor ==
    { tempKey } \cup (IF tempIn.modifyChallenges = "addRecipient" THEN { "rsa2" } ELSE {})

\* C8: wrong key. Opening a sealed temporary envelope with a private key
\* that no map entry was made for returns no payload and fails with an
\* authentication error.
C8_WrongKeyRejected ==
    (tempOut.result.done /\ tempOut.priv \notin SealedFor) =>
        /\ ~tempOut.result.ok
        /\ tempOut.result.err = "AuthenticationError"
        /\ tempOut.result.payload = << >>

\* C8 witness: an envelope whose map holds the recipient's entry was opened
\* with another private key and the right challenge.
C8_Witness ==
    /\ tempOut.result.done
    /\ tempOut.priv \notin SealedFor
    /\ tempOut.expected = tempIn.plaintextChallenge
    /\ RecipientEntryKept
    /\ ~tempOut.result.ok

\* ------------------------------------------------------------------------
\* SpecPermanent: a permanent envelope is sealed, altered or not on its way,
\* and opened
\* ------------------------------------------------------------------------
PlainPayloads == { << "REQUEST_PAYLOAD" >>, << "OTHER_PAYLOAD" >> }

SealPermanent ==
    /\ ~permIn.sealed
    /\ \E permanentKey \in SymmetricKeys, permanentNonce \in Nonces,
          requestType \in RequestTypes, plainPayload \in PlainPayloads,
          modifyIssuerSignature \in SignatureHooks,
          modifyCertifierSignature \in SignatureHooks,
          issuerKey \in KeyPairs, certifierKey \in KeyPairs :
          LET sealed == GeneratePermanentEncryptedOperationWithEncryption(
                            << "KEY_ID" >>, permanentKey, permanentNonce, requestType,
                            plainPayload, modifyIssuerSignature,
                            modifyCertifierSignature, issuerKey, certifierKey)
          IN /\ permOp' = sealed.op
             /\ permKeys' = [ issuerKey |-> sealed.issuerKey,
                              certifierKey |-> sealed.certifierKey ]
             /\ permIn' = [ sealed |-> TRUE, keyId |-> << "KEY_ID" >>,
                            permanentKey |-> permanentKey,
                            permanentNonce |-> permanentNonce,
                            requestType |-> requestType,
                            plainPayload |-> plainPayload,
                            modifyIssuerSignature |-> modifyIssuerSignature,
                            modifyCertifierSignature |-> modifyCertifierSignature,
                            altered |-> "no" ]
    /\ UNCHANGED <<usersVars, terminationVars, temporaryVars, permOut, statusVars>>

\* the ciphertext of the envelope is altered on its way: a bit of it is
\* flipped, or it is replaced by the encryption of another payload under the
\* same key and nonce, the signatures staying as they are
AlterCiphertext ==
    /\ permIn.sealed
    /\ permIn.altered = "no"
    /\ ~permOut.result.done
    /\ \E how \in { "flip", "reseal" } :
          /\ permOp' =
                [ permOp EXCEPT !.Payload =
                    IF how = "flip"
                    THEN Base64EncodeToString(
                            << "flipped" >> \o Base64DecodeString(permOp.Payload).bytes)
                    ELSE Base64EncodeToString(
                            SymmetricEncrypt(NewAead(permIn.permanentKey), << >>,
                                             permIn.permanentNonce,
                                             << "FORGED_PAYLOAD" >>)) ]
          /\ permIn' = [ permIn EXCEPT !.altered = how ]
    /\ UNCHANGED <<usersVars, terminationVars, temporaryVars, permKeys, permOut, statusVars>>

OpenPermanent ==
    /\ permIn.sealed
    /\ \E symmetricKey \in SymmetricKeys, issuer \in KeyPairs, certifier \in KeyPairs :
          permOut' = [ symmetricKey |-> symmetricKey,
                       issuerPub |-> PublicKey(issuer),
                       certifierPub |-> PublicKey(certifier),
                       result |-> PermanentDecrypt(permOp, symmetricKey,
                                                   PublicKey(issuer),
                                                   PublicKey(certifier)) ]
    /\ UNCHANGED <<usersVars, terminationVars, temporaryVars, permOp, permKeys, permIn, statusVars>>

NextPermanent == SealPermanent \/ AlterCiphertext \/ OpenPermanent

SpecPermanent == Init /\ [][NextPermanent]_vars

\* the envelope was opened with the key it was sealed under and the public
\* keys of the issuer and certifier keys the sealing returned
OpenedWithMatchingKeys ==
    /\ permOut.result.done
    /\ permOut.symmetricKey = permIn.permanentKey
    /\ permOut.issuerPub = PublicKey(permKeys.issuerKey)
    /\ permOut.certifierPub = PublicKey(permKeys.certifierKey)

\* the hook returned the signature it was given: as it is, to be encoded, or
\* encoded by the hook itself
IssuerSignatureUnmodified == permIn.modifyIssuerSignature \in { "keep", "encode" }

CertifierSignatureUnmodified == permIn.modifyCertifierSignature \in { "keep", "encode" }

\* C9: dual signature. Opened with the matching keys, a permanent envelope
\* opens and returns the payload that was sealed when both signatures are
\* unmodified and the ciphertext is unaltered; when either signature was
\* replaced or the ciphertext was altered the opening fails and returns no
\* payload.
C9_DualSignature ==
    OpenedWithMatchingKeys =>
        /\ ( /\ IssuerSignatureUnmodified
             /\ CertifierSignatureUnmodified
             /\ permIn.altered = "no" )
           => /\ permOut.result.ok
              /\ permOut.result.payload = permIn.plainPayload
        /\ ( \/ ~IssuerSignatureUnmodified
             \/ ~CertifierSignatureUnmodified
             \/ permIn.altered # "no" )
           => /\ ~permOut.result.ok
              /\ permOut.result.payload = << >>
              /\ permOut.result.err \in { "ParseError", "CryptoError",
                                           "AuthenticationError" }

\* C9 witness: an envelope whose certifier signature alone was replaced by
\* another key's signature over the same digest was opened with the matching
\* keys and refused.
C9_Witness ==
    /\ OpenedWithMatchingKeys
    /\ IssuerSignatureUnmodified
    /\ permIn.modifyCertifierSignature = "foreign"
    /\ permIn.altered = "no"
    /\ permOut.result.err = "AuthenticationError"

\* an envelope with unmodified signatures and ciphertext was opened
OpenedUnmodified ==
    /\ OpenedWithMatchingKeys
    /\ IssuerSignatureUnmodified
    /\ CertifierSignatureUnmodified
    /\ permIn.altered = "no"
    /\ permOut.result.ok

\* ------------------------------------------------------------------------
\* SpecStatus: the status server is started and shut down, tickets are
\* issued and updated
\* ------------------------------------------------------------------------
StartStatusServer ==
    /\ ~running
    /\ running' = TRUE
    /\ started' = TRUE
    /\ UNCHANGED <<usersVars, terminationVars, temporaryVars, permanentVars, tickets, statusErr>>

ShutdownStatusServer ==
    /\ running
    /\ running' = FALSE
    /\ UNCHANGED <<usersVars, terminationVars, temporaryVars, permanentVars, tickets, statusErr, started>>

RequestNewTicket ==
    /\ Len(tickets) < MaxTickets
    /\ tickets' = Append(tickets, NothingRecorded)
    /\ UNCHANGED <<usersVars, terminationVars, temporaryVars, permanentVars, running, statusErr, started>>

UpdateStatusCall ==
    /\ \E ticket \in 1..Len(tickets), status \in StatusCodes, reason \in ReasonCodes :
          LET err == UpdateStatus(running, status, reason)
          IN /\ tickets' = IF err = "nil"
                           THEN [ tickets EXCEPT ![ticket] =
                                    [ recorded |-> TRUE, status |-> status,
                                      reason |-> reason ] ]
                           ELSE tickets
             /\ statusErr' = [ called |-> TRUE, ticket |-> ticket, status |-> status,
                               reason |-> reason, err |-> err,
                               before |-> tickets[ticket],
                               isRunning |-> running, wasStarted |-> started ]
    /\ UNCHANGED <<usersVars, terminationVars, temporaryVars, permanentVars, running, started>>

NextStatus ==
    StartStatusServer \/ ShutdownStatusServer \/ RequestNewTicket \/ UpdateStatusCall

SpecStatus == Init /\ [][NextStatus]_vars

StatusInRange(status) == status >= QueuedStatus /\ status <= FailedStatus

ReasonInRange(reason) == reason >= NoReason /\ reason <= FailedReason

\* C10: range validation. An update with a status code outside the
\* enumeration returns statusRangeError, one with a failure-reason code
\* outside its enumeration returns failedRangeError, and in both cases what
\* is recorded for the ticket stays as it was.
C10_RangeValidation ==
    statusErr.called =>
        /\ (~StatusInRange(statusErr.status) /\ ReasonInRange(statusErr.reason)) =>
              statusErr.err = "statusRangeError"
        /\ (StatusInRange(statusErr.status) /\ ~ReasonInRange(statusErr.reason)) =>
              statusErr.err = "failedRangeError"
        /\ (~StatusInRange(statusErr.status) \/ ~ReasonInRange(statusErr.reason)) =>
              /\ statusErr.err \in { "statusRangeError", "failedRangeError" }
              /\ tickets[statusErr.ticket] = statusErr.before

\* C10 witness: with the server running, a ticket that has a status recorded
\* was updated with the code after FailedStatus and the update was refused.
C10_Witness ==
    /\ statusErr.called
    /\ running
    /\ statusErr.status = FailedStatus + 1
    /\ statusErr.reason = NoReason
    /\ statusErr.before.recorded
    /\ statusErr.err = "statusRangeError"

\* ------------------------------------------------------------------------
\* More claims on the merge of one record (Spec): what one call of
\* applyUpdateRequest did to the record, prev being the record before it
\* ------------------------------------------------------------------------
\* the field paths a request names
Named(r) == { r.FieldsUpdated[i] : i \in 1..Len(r.FieldsUpdated) }

\* the field paths whose leaf update returned true in the last call
Accepted == { acc[i].field : i \in { j \in 1..Len(acc) : acc[j].ok } }

Containers == { "record", "permissions", "channel", "user" }

\* the UpdatedAt of a container
RollupOf(rec, container) ==
    CASE container = "record" -> rec.UpdatedAt
      [] container = "permissions" -> rec.Permissions.UpdatedAt
      [] container = "channel" -> rec.Permissions.Channel.UpdatedAt
      [] container = "user" -> rec.Permissions.User.UpdatedAt

\* the containers on the path from a leaf to the record
PathOf(field) == { Rollups(field)[i] : i \in 1..Len(Rollups(field)) }

\* C11: acceptance propagation. After a call that accepted a leaf update, the
\* leaf's UpdatedAt and the UpdatedAt of every container on the path from the
\* leaf to the record equal the request timestamp, whatever they were before,
\* and the containers on the path of no accepted leaf keep their UpdatedAt.
C11_AcceptancePropagates ==
    /\ \A f \in Accepted :
          /\ Leaf(record, f).UpdatedAt = req.Timestamp
          /\ \A c \in PathOf(f) : RollupOf(record, c) = req.Timestamp
    /\ \A c \in Containers \ UNION { PathOf(f) : f \in Accepted } :
          RollupOf(record, c) = RollupOf(prev, c)

\* C11 witness: a user permission was accepted at a timestamp before the one
\* the record and Permissions held, the channel container having been
\* written by the call before.
C11_Witness ==
    /\ ops >= 2
    /\ \E f \in Accepted \cap UserPermissionPaths :
          /\ Accepted = { f }
          /\ RollupOf(prev, "record") > req.Timestamp
          /\ RollupOf(prev, "permissions") > req.Timestamp
          /\ RollupOf(prev, "channel") > req.Timestamp
          /\ RollupOf(record, "channel") = RollupOf(prev, "channel")

\* C12: rejection has no effect. After a call whose request timestamp was
\* strictly after the UpdatedAt of none of the leaves it named, the whole
\* record, its values and every UpdatedAt, is as it was before the call.
C12_RejectionHasNoEffect ==
    ( /\ ops >= 1
      /\ \A f \in Named(req) \cap FieldPaths :
            req.Timestamp <= Leaf(prev, f).UpdatedAt )
    => /\ record = prev
       /\ \A i \in 1..Len(acc) : ~acc[i].ok

\* C12 witness: a request naming two leaves, a key first, both holding a
\* timestamp not before the request's and another value than the request
\* carries, was applied.
C12_Witness ==
    /\ ops >= 2
    /\ Len(req.FieldsUpdated) = 2
    /\ req.FieldsUpdated[1] = "encKey"
    /\ req.FieldsUpdated[2] \in FieldPaths \ { "encKey" }
    /\ \A f \in Named(req) :
          /\ req.Timestamp <= Leaf(prev, f).UpdatedAt
          /\ Candidate(req, f) # Leaf(prev, f).val
    /\ record = prev

IsFieldPath(field) == field \in FieldPaths

\* the request without the paths the switch has no case for
Known(r) == [ r EXCEPT !.FieldsUpdated = SelectSeq(r.FieldsUpdated, IsFieldPath) ]

\* C13: unknown field paths. A call leaves the record, and returns from its
\* leaf updates, what it would for the same request without the unknown
\* paths: an unknown path changes nothing and the known paths before and
\* after it are processed. A request of unknown paths alone changes nothing.
C13_UnknownPathsIgnored ==
    (ops >= 1) =>
        /\ record = applyUpdateRequest(prev, Known(req)).record
        /\ acc = applyUpdateRequest(prev, Known(req)).out
        /\ (Named(req) \cap FieldPaths = {}) => (record = prev /\ acc = << >>)

\* C13 witness: a request naming an unknown path and then a known one was
\* applied and the known one was accepted.
C13_Witness ==
    /\ ops >= 1
    /\ Len(req.FieldsUpdated) = 2
    /\ req.FieldsUpdated[1] = UnknownPath
    /\ req.FieldsUpdated[2] \in FieldPaths
    /\ Len(acc) = 1
    /\ acc[1].ok
    /\ record # prev

\* the request with its field paths in the opposite order
Reversed(r) ==
    [ r EXCEPT !.FieldsUpdated =
        [ i \in 1..Len(r.FieldsUpdated) |->
            r.FieldsUpdated[Len(r.FieldsUpdated) + 1 - i] ] ]

\* C14: per-path independence. After a call, every leaf the request named
\* holds the request's value and timestamp if the timestamp was strictly
\* after the leaf's own UpdatedAt, and is as it was otherwise, whatever
\* happened to the other paths; and the call with the paths in the opposite
\* order leaves the same record.
C14_PerPathIndependent ==
    (ops >= 1) =>
        /\ \A f \in Named(req) \cap FieldPaths :
              IF req.Timestamp > Leaf(prev, f).UpdatedAt
              THEN Leaf(record, f) =
                      [ val |-> Candidate(req, f), UpdatedAt |-> req.Timestamp ]
              ELSE Leaf(record, f) = Leaf(prev, f)
        /\ record = applyUpdateRequest(prev, Reversed(req)).record

\* C14 witness: a request naming a stale leaf and then another leaf was
\* applied: the first update was rejected and the second accepted.
C14_Witness ==
    /\ Len(acc) = 2
    /\ ~acc[1].ok
    /\ acc[2].ok
    /\ acc[1].field # acc[2].field
    /\ Leaf(record, acc[2].field).UpdatedAt = req.Timestamp

\* C15: leaf timestamps. A call never lowers a leaf's UpdatedAt; a leaf that
\* was written holds a strictly later UpdatedAt than before, the timestamp of
\* the request that wrote it, and no other leaf changes; and in every state
\* a leaf never written is as it was created, and a written leaf holds the
\* value and the timestamp of the request whose update last wrote it.
C15_LeafTimestampInvariant ==
    \A f \in FieldPaths :
        /\ Leaf(record, f).UpdatedAt >= Leaf(prev, f).UpdatedAt
        /\ (Leaf(record, f) # Leaf(prev, f)) =>
              /\ f \in Accepted
              /\ Leaf(record, f).val = Candidate(req, f)
        /\ (f \in Accepted) =>
              /\ Leaf(record, f).UpdatedAt = req.Timestamp
              /\ Leaf(record, f).UpdatedAt > Leaf(prev, f).UpdatedAt
        /\ IF setBy[f] = NoRequest
           THEN Leaf(record, f) = Leaf(FreshRecord, f)
           ELSE /\ f \in Named(setBy[f])
                /\ Leaf(record, f) =
                      [ val |-> Candidate(setBy[f], f),
                        UpdatedAt |-> setBy[f].Timestamp ]

\* C15 witness: a leaf written by the first request was named by a second
\* request with an earlier timestamp and another value, and holds the first
\* request's value and timestamp.
C15_Witness ==
    /\ ops >= 2
    /\ \E f \in Named(req) \cap Named(prevReq) \cap FieldPaths :
          /\ req.Timestamp < prevReq.Timestamp
          /\ Candidate(req, f) # Candidate(prevReq, f)
          /\ Leaf(record, f) =
                [ val |-> Candidate(prevReq, f), UpdatedAt |-> prevReq.Timestamp ]

\* C16: field isolation. A call leaves every leaf its request did not name
\* as it was, value and UpdatedAt, and never changes Id and CreatedAt.
C16_FieldIsolation ==
    /\ record.Id = prev.Id
    /\ record.Id = FreshRecord.Id
    /\ record.CreatedAt = prev.CreatedAt
    /\ record.CreatedAt = CreationTime
    /\ \A f \in FieldPaths \ Named(req) : Leaf(record, f) = Leaf(prev, f)

\* C16 witness: a call accepted a user permission while another user
\* permission, written by the call before, was not named; the request was
\* later than that leaf and carried another value for it.
C16_Witness ==
    /\ ops >= 2
    /\ \E f \in Accepted \cap UserPermissionPaths :
       \E g \in UserPermissionPaths \ Named(req) :
          /\ Leaf(prev, g).UpdatedAt > CreationTime
          /\ req.Timestamp > Leaf(prev, g).UpdatedAt
          /\ Candidate(req, g) # Leaf(prev, g).val
          /\ Leaf(record, g) = Leaf(prev, g)

\* ------------------------------------------------------------------------
\* More claims on the temporary envelope (SpecTemporary)
\* ------------------------------------------------------------------------
\* the envelope with the entries that do not pass the test of Decrypt for
\* priv and expected taken out of its challenges map
WithoutNonMatching(op, priv, expected) ==
    [ op EXCEPT !.Encryption.Challenges =
        [ entry \in MatchingEntries(op, priv, expected) |->
            op.Encryption.Challenges[entry] ] ]

\* the entries tried before the first that passes the test, in the order
\* of the last Decrypt
TriedInVain ==
    { tempOut.order[i] : i \in { j \in 1..Len(tempOut.order) :
        \A k \in 1..j :
            ~EntryMatches(tempOp, tempOut.priv, tempOut.expected, tempOut.order[k]) } }

\* C17: decryption by discovery ignores the entries that do not match.
\* Whenever some entry of the challenges map decrypts with the given private
\* key and yields the expected challenge, the opening succeeds and returns
\* the sealed payload, whatever other entries the map holds; the result is
\* the same in every order the entries can be tried in; and it is the result
\* of opening the envelope with the non-matching entries taken out, so that
\* they cause neither an error nor another payload.
C17_NonMatchingIgnored ==
    tempOut.result.done =>
        /\ (MatchingEntries(tempOp, tempOut.priv, tempOut.expected) # {}) =>
              /\ tempOut.result.ok
              /\ tempOut.result.payload = tempIn.plainPayload
        /\ \A order \in Orders(DOMAIN tempOp.Encryption.Challenges) :
              TemporaryDecryptFrom(tempOp, tempOut.priv, tempOut.expected, order, 1)
                  = tempOut.result
        /\ TemporaryDecrypt(WithoutNonMatching(tempOp, tempOut.priv, tempOut.expected),
                            tempOut.priv, tempOut.expected) = { tempOut.result }

\* C17 witness: the map held the recipient's entry and one a hook made for
\* the same recipient under another key and nonce; Decrypt tried the hook's
\* entry first, decrypted its key with the private key, found that the
\* challenge did not match, went on to the recipient's entry and returned
\* the sealed payload.
C17_Witness ==
    /\ tempOut.result.done
    /\ tempOut.result.ok
    /\ tempOut.result.payload = tempIn.plainPayload
    /\ tempIn.modifyChallenges = "addRecipient"
    /\ Len(tempOut.order) = 2
    /\ EntryKey(tempOut.order[1], tempOut.priv).ok
    /\ TriedInVain = { tempOut.order[1] }
    /\ EntryMatches(tempOp, tempOut.priv, tempOut.expected, tempOut.order[2])

\* the malformed entries of the test helper ("random", "random2") were tried
\* before the recipient's entry, and the sealed payload came back
MalformedTriedFirst ==
    /\ tempOut.result.done
    /\ tempOut.result.ok
    /\ tempIn.modifyChallenges = "addRandom"
    /\ TriedInVain = { << "random" >>, << "random2" >> }

\* ------------------------------------------------------------------------
\* More claims on the status server (SpecStatus)
\* ------------------------------------------------------------------------
\* C18: status server lifecycle. An update submitted while the status server
\* is not running, never started or shut down, returns an error when its
\* codes are valid, and the range error when a code is out of range:
\* statusRangeError for the status, failedRangeError for the failure reason.
C18_ServerDown ==
    (statusErr.called /\ ~statusErr.isRunning) =>
        /\ statusErr.err # "nil"
        /\ (StatusInRange(statusErr.status) /\ ReasonInRange(statusErr.reason)) =>
              statusErr.err \notin { "statusRangeError", "failedRangeError" }
        /\ (~StatusInRange(statusErr.status) \/ ~ReasonInRange(statusErr.reason)) =>
              statusErr.err \in { "statusRangeError", "failedRangeError" }
        /\ (~StatusInRange(statusErr.status) /\ ReasonInRange(statusErr.reason)) =>
              statusErr.err = "statusRangeError"
        /\ (StatusInRange(statusErr.status) /\ ~ReasonInRange(statusErr.reason)) =>
              statusErr.err = "failedRangeError"

\* C18 witness: after the server was started and shut down, an update with
\* FailedStatus and the code after FailedReason returned failedRangeError.
C18_Witness ==
    /\ statusErr.called
    /\ statusErr.wasStarted
    /\ ~statusErr.isRunning
    /\ statusErr.status = FailedStatus
    /\ statusErr.reason = FailedReason + 1
    /\ statusErr.err = "failedRangeError"

\* an update with valid codes was refused by a server that was never started
RefusedNeverStarted ==
    /\ statusErr.called
    /\ ~statusErr.wasStarted
    /\ statusErr.status = QueuedStatus
    /\ statusErr.reason = NoReason
    /\ statusErr.err # "nil"

\* ------------------------------------------------------------------------
\* SpecTermination: the process starts, shutdownWhenSignaled waits for a
\* terminal cause, listenForSystemTermination forwards the signals raised
\* ------------------------------------------------------------------------
ProcessOver == main.pc \in { "exited", "killed" }

\* signal.Notify was called: signals go to signalChannel
Notifying == listener.pc \in { "receive", "send" }

\* the package variables are initialized before main runs
InitializePackage ==
    /\ main.pc = "init"
    /\ signalMapping' \in SignalMappings
    /\ main' = [ main EXCEPT !.pc = "start" ]
    /\ UNCHANGED <<usersVars, temporaryVars, permanentVars, statusVars,
                   signalChannel, listener, received, raised, logged>>

\* shutdownWhenSignaled makes terminationChannel and calls
\* listenForTermination, which starts listenForSystemTermination and waits
ShutdownWhenSignaled ==
    /\ main.pc = "start"
    /\ main' = [ main EXCEPT !.pc = "receive" ]
    /\ listener' = [ listener EXCEPT !.pc = "notify" ]
    /\ UNCHANGED <<usersVars, temporaryVars, permanentVars, statusVars,
                   signalMapping, signalChannel, received, raised, logged>>

\* listenForSystemTermination: make(chan os.Signal, 1); signal.Notify
ListenerNotify ==
    /\ ~ProcessOver
    /\ listener.pc = "notify"
    /\ listener' = [ listener EXCEPT !.pc = "receive" ]
    /\ UNCHANGED <<usersVars, temporaryVars, permanentVars, statusVars,
                   signalMapping, signalChannel, main, received, raised, logged>>

\* a signal is raised. Once Notify was called the signal is sent to
\* signalChannel without blocking: it is dropped when the buffer is full.
\* Before that the default of the runtime applies.
RaiseSignal ==
    /\ ~ProcessOver
    /\ main.pc # "init"
    /\ Len(raised) < MaxSignals
    /\ \E sig \in Signals :
          IF Notifying
          THEN IF Len(signalChannel) < SignalChannelSize
               THEN /\ signalChannel' = Append(signalChannel, sig)
                    /\ raised' = Append(raised, [ sig |-> sig, fate |-> "queued" ])
                    /\ main' = main
               ELSE /\ raised' = Append(raised, [ sig |-> sig, fate |-> "dropped" ])
                    /\ UNCHANGED <<signalChannel, main>>
          ELSE IF sig \in FatalByDefault
               THEN /\ main' = [ main EXCEPT !.pc = "killed" ]
                    /\ raised' = Append(raised, [ sig |-> sig, fate |-> "default" ])
                    /\ signalChannel' = signalChannel
               ELSE /\ raised' = Append(raised, [ sig |-> sig, fate |-> "ignored" ])
                    /\ UNCHANGED <<signalChannel, main>>
    /\ UNCHANGED <<usersVars, temporaryVars, permanentVars, statusVars,
                   signalMapping, listener, received, logged>>

\* systemSignal := <-signalChannel; mappedTerminationCause := mapSystemSignal(...)
ListenerReceive ==
    /\ ~ProcessOver
    /\ listener.pc = "receive"
    /\ signalChannel # << >>
    /\ listener' = [ pc |-> "send", cause |-> mapSystemSignal(Head(signalChannel)) ]
    /\ signalChannel' = Tail(signalChannel)
    /\ UNCHANGED <<usersVars, temporaryVars, permanentVars, statusVars,
                   signalMapping, main, received, raised, logged>>

\* terminationChannel has no buffer: the send of the listener and the
\* receive of listenForTermination happen together
Handover ==
    /\ ~ProcessOver
    /\ listener.pc = "send"
    /\ main.pc = "receive"
    /\ main' = [ pc |-> "check", cause |-> listener.cause ]
    /\ received' = Append(received, listener.cause)
    /\ listener' = [ listener EXCEPT !.pc = "receive" ]
    /\ UNCHANGED <<usersVars, temporaryVars, permanentVars, statusVars,
                   signalMapping, signalChannel, raised, logged>>

\* if isTerminal(terminationCause) { log.Errorf(...); return }
CheckCause ==
    /\ main.pc = "check"
    /\ IF isTerminal(main.cause)
       THEN /\ logged' = terminationCauseMessage(main.cause)
            /\ main' = [ main EXCEPT !.pc = "returned" ]
       ELSE /\ logged' = logged
            /\ main' = [ main EXCEPT !.pc = "receive" ]
    /\ UNCHANGED <<usersVars, temporaryVars, permanentVars, statusVars,
                   signalMapping, signalChannel, listener, received, raised>>

\* os.Exit(1)
Exit ==
    /\ main.pc = "returned"
    /\ main' = [ main EXCEPT !.pc = "exited" ]
    /\ UNCHANGED <<usersVars, temporaryVars, permanentVars, statusVars,
                   signalMapping, signalChannel, listener, received, raised, logged>>

NextTermination ==
    \/ InitializePackage
    \/ ShutdownWhenSignaled
    \/ ListenerNotify
    \/ RaiseSignal
    \/ ListenerReceive
    \/ Handover
    \/ CheckCause
    \/ Exit

SpecTermination == Init /\ [][NextTermination]_vars

\* the steps of the program are scheduled fairly; whether and when a signal
\* is raised is up to the environment
SpecTerminationFair ==
    /\ SpecTermination
    /\ WF_vars(InitializePackage)
    /\ WF_vars(ShutdownWhenSignaled)
    /\ WF_vars(ListenerNotify)
    /\ WF_vars(ListenerReceive)
    /\ WF_vars(Handover)
    /\ WF_vars(CheckCause)
    /\ WF_vars(Exit)

\* listenForTermination returned only on a terminal cause, every cause it
\* received before being NoTermination
ReturnsOnlyOnTerminal ==
    /\ (main.pc \in { "returned", "exited" }) =>
          /\ received # << >>
          /\ isTerminal(received[Len(received)])
          /\ logged = terminationCauseMessage(received[Len(received)])
    /\ \A i \in 1..(Len(received) - 1) : ~isTerminal(received[i])
    /\ (main.pc \in { "init", "start", "receive", "killed" }) =>
          \A i \in 1..Len(received) : ~isTerminal(received[i])

\* a signal that maps to a terminal cause was raised
TerminalRaised == \E i \in 1..Len(raised) : isTerminal(mapSystemSignal(raised[i].sig))

\* a signal that maps to a terminal cause was put into signalChannel
TerminalQueued ==
    \E i \in 1..Len(raised) :
        raised[i].fate = "queued" /\ isTerminal(mapSystemSignal(raised[i].sig))

\* what does hold: a terminal signal that got into signalChannel ends the
\* process, and the listener does not wait forever to hand over a cause
QueuedTerminalExits == TerminalQueued ~> ProcessOver

ListenerNeverStuck == (listener.pc = "send") ~> (listener.pc = "receive" \/ ProcessOver)

\* C19: termination listener. listenForTermination returns, and the process
\* then exits, only after it received a terminal cause, the NoTermination
\* causes before it having been consumed; and under fair scheduling every
\* signal raised that maps to a terminal cause leads to the end of the
\* process, the listener never waiting forever to hand over a cause.
C19_TerminationListener ==
    /\ []ReturnsOnlyOnTerminal
    /\ ListenerNeverStuck
    /\ TerminalRaised ~> ProcessOver

\* C20: signal mapping. Once the package is initialized, mapSystemSignal maps
\* os.Interrupt, which is SIGINT, to UserInterrupted, whose message is
\* "Detected user interruption"; SIGHUP, SIGTERM and SIGQUIT to
\* SystemTerminated; and a signal the literal does not list to NoTermination.
C20_SignalMapping ==
    (main.pc # "init") =>
        /\ mapSystemSignal(OsInterrupt) = UserInterrupted
        /\ terminationCauseMessage(mapSystemSignal(OsInterrupt)) =
              "Detected user interruption"
        /\ \A sig \in { "SIGHUP", "SIGTERM", "SIGQUIT" } :
              mapSystemSignal(sig) = SystemTerminated
        /\ \A sig \in Signals \ ListedSignals : mapSystemSignal(sig) = NoTermination

\* what does hold of the mapping: the signals listed once, and the others
ListedOnceMapped ==
    (main.pc # "init") =>
        /\ mapSystemSignal(OsInterrupt) \in { UserInterrupted, SystemTerminated }
        /\ \A sig \in { "SIGHUP", "SIGTERM", "SIGQUIT" } :
              mapSystemSignal(sig) = SystemTerminated
        /\ \A sig \in Signals \ ListedSignals : mapSystemSignal(sig) = NoTermination

====
